---- MODULE Spec2Model ----
(***************************************************************************)
(* A model of the odd-one-out triplet scorer of main_eval.py               *)
(* (get_predictions, accuracy, ventropy, evaluate) and of the RSA          *)
(* evaluation loop of main_model_sim_eval.py.                              *)
(*                                                                         *)
(* Floating-point values are modelled in fixed point: a real x is the      *)
(* integer x * Scale.  NaN is a value of its own.                          *)
(***************************************************************************)
EXTENDS Integers, Sequences, FiniteSets, TLC

VARIABLES
    \* ---- main_eval.py: inputs
    features,       \* the N x D feature matrix, rows indexed 0..N-1
    triplets,       \* the triplet list, a sequence of 3-tuples of indices
    rnd_seed,       \* the process-wide random seed state (__main__)
    \* ---- main_eval.py: control
    pc,             \* position of the evaluation run
    error,          \* the exception that escaped, or "none"
    run,            \* 1 for the first scoring of the inputs, 2 for the repeat
    \* ---- get_predictions: locals
    t,              \* number of triplets consumed by the for loop
    indices,        \* the set {0, 1, 2}
    similarities,   \* the last similarity tensor
    most_sim_pair,  \* the last selected pair
    ooo_idx,        \* the last predicted odd-one-out position
    choices,        \* the correctness list
    probas,         \* the confidence rows
    \* ---- evaluate: locals
    acc, entropies, mean_entropy, results, saved_probas, results_csv,
    prev,           \* the outputs of the first scoring, kept for the repeat
    \* ---- main_model_sim_eval.py: inputs
    model_names,    \* args.model_names
    model_sources,  \* args.sources
    model_config,   \* the models the config file gives a module name for
    use_transforms, \* args.use_transforms
    transforms,     \* keys <<source, model>> of the loaded transforms
    things_features,\* keys <<source, model>> of the loaded THINGS embeddings
    \* ---- main_model_sim_eval.py: evaluate
    rsa_pc,         \* position of the RSA evaluation run
    modules,        \* model_cfg.modules
    model_idx,      \* loop index i of the for loop over the models
    rsa_results,    \* the results list
    model_features, \* the stored features, keyed <<source, model>>
    warned,         \* the models a warning was issued for
    results_pkl,    \* the pickled results table, once written
    features_file   \* the saved feature dictionary, once written

scorerVars == <<features, triplets, rnd_seed, pc, error, run, t, indices,
                similarities, most_sim_pair, ooo_idx, choices, probas, acc,
                entropies, mean_entropy, results, saved_probas, results_csv,
                prev>>

rsaVars == <<model_names, model_sources, model_config, use_transforms,
             transforms, things_features, rsa_pc, modules, model_idx, rsa_results,
             model_features, warned, results_pkl, features_file>>

vars == <<scorerVars, rsaVars>>

\* ------------------------------------------------------------------ bounds
\* Longest triplet list (and longest correctness vector fed to the scorer).
MaxT == 2
\* Longest correctness vector handed to accuracy on its own.
MaxLen == 6
\* Confidence rows handed to ventropy on its own are multiples of 1 / GridK.
GridK == 3
\* Longest list of models of an RSA run.
MaxModels == 2

\* --------------------------------------------------------- fixed-point reals
Places == 4
Scale == 10 ^ Places
NaN == -(2 ^ 30)
None == "none"

Abs(x) == IF x < 0 THEN -x ELSE x
Sign(x) == IF x < 0 THEN -1 ELSE IF x > 0 THEN 1 ELSE 0

RECURSIVE SqrtSearch(_, _, _)
SqrtSearch(x, lo, hi) ==
    IF lo >= hi THEN lo
    ELSE LET mid == (lo + hi + 1) \div 2
         IN IF mid * mid <= x THEN SqrtSearch(x, mid, hi)
            ELSE SqrtSearch(x, lo, mid - 1)

\* floor(sqrt(x)) for 0 <= x <= Scale^2
ISqrt(x) == SqrtSearch(x, 0, Scale)

\* x * y / Scale, rounded toward zero
FMul(x, y) == Sign(x) * Sign(y) * ((Abs(x) * Abs(y)) \div Scale)
\* x * Scale / y, rounded toward zero (y # 0)
FDiv(x, y) == Sign(x) * Sign(y) * ((Abs(x) * Scale) \div Abs(y))

\* exp(x) by its Taylor series, for |x| <= Scale (a cosine similarity)
RECURSIVE ExpSeries(_, _, _, _)
ExpSeries(x, term, n, sum) ==
    IF term = 0 THEN sum
    ELSE LET next == Sign(x) * Sign(term) * ((Abs(term) * Abs(x)) \div (Scale * n))
         IN ExpSeries(x, next, n + 1, sum + term)

FExp(x) == ExpSeries(x, Scale, 1, 0)

\* log(m) for Scale <= m <= 2 * Scale: 2 * atanh((m - 1) / (m + 1))
RECURSIVE AtanhSeries(_, _, _, _)
AtanhSeries(z2, power, n, sum) ==
    IF power = 0 THEN sum
    ELSE AtanhSeries(z2, (power * z2) \div Scale, n + 2, sum + power \div n)

LogMantissa(m) ==
    LET z == ((m - Scale) * Scale) \div (m + Scale)
    IN 2 * AtanhSeries((z * z) \div Scale, z, 1, 0)

\* log(p) for 0 < p <= Scale (0 < real <= 1): double p into [Scale, 2 Scale)
RECURSIVE LogNormalise(_, _)
LogNormalise(p, k) ==
    IF p >= Scale THEN LogMantissa(p) - k * LogMantissa(2 * Scale)
    ELSE LogNormalise(2 * p, k + 1)

\* torch.log: log(0) = -inf, and 0 * -inf = nan; only p * log(p) is ever used
PLogP(p) == IF p = 0 THEN NaN ELSE (p * LogNormalise(p, 0)) \div Scale

FAdd(x, y) == IF x = NaN \/ y = NaN THEN NaN ELSE x + y
FNeg(x) == IF x = NaN THEN NaN ELSE -x

RECURSIVE FSum(_)
FSum(s) == IF s = <<>> THEN 0 ELSE FAdd(Head(s), FSum(Tail(s)))


\* ------------------------------------------------------------------ inputs
\* Feature vectors the rows of the feature matrix are drawn from
\* (the zero vector, parallel, orthogonal, oblique and opposite vectors).
Vecs == {<<0, 0>>, <<1, 0>>, <<0, 1>>, <<-1, 1>>}
Items == {0, 1, 2}
FeatureMatrices == [Items -> Vecs]

\* Triplets a list may hold: valid ones (the rows vary with the matrix),
\* repeated indices, negative indices and indices past the last row.
TripDom == {<<0, 1, 2>>, <<2, 0, 1>>,
            <<0, 0, 1>>, <<0, 1, 0>>, <<1, 0, 0>>,
            <<0, 1, -1>>,
            <<0, 3, 1>>, <<0, 1, -4>>}
\* Triplets of a list that is scored twice
TwiceDom == {<<0, 1, 2>>, <<2, 0, 1>>, <<0, 0, 1>>, <<0, 1, -1>>, <<0, 3, 1>>}

RECURSIVE SeqsUpTo(_, _)
SeqsUpTo(S, n) ==
    IF n = 0 THEN {<<>>}
    ELSE LET shorter == SeqsUpTo(S, n - 1)
         IN shorter \cup {Append(s, x) : s \in {q \in shorter : Len(q) = n - 1}, x \in S}

Seeds == {42, 7}

\* ------------------------------------------------------- main_eval.py: pure
NumRows(f) == Cardinality(DOMAIN f)

\* features[i] on a tensor: i in [-N, N) addresses a row, anything else raises
InRange(f, i) == -NumRows(f) <= i /\ i < NumRows(f)
RowAt(f, i) == IF i < 0 THEN f[NumRows(f) + i] ELSE f[i]

RECURSIVE DotUpTo(_, _, _)
DotUpTo(a, b, n) == IF n = 0 THEN 0 ELSE a[n] * b[n] + DotUpTo(a, b, n - 1)
Dot(a, b) == DotUpTo(a, b, Len(a))

\* F.cosine_similarity(a, b, dim=0): a.b / max(|a| |b|, eps)
cosine_similarity(a, b) ==
    LET d == Dot(a, b)
        n == Dot(a, a) * Dot(b, b)
    IN IF n = 0 THEN 0
       ELSE Sign(d) * ISqrt((d * d * Scale * Scale) \div n)

pairs == <<<<0, 1>>, <<0, 2>>, <<1, 2>>>>

\* triplet: positions 0..2 -> vector
compute_similarities(triplet, prs) ==
    [p \in 1..Len(prs) |-> cosine_similarity(triplet[prs[p][1]], triplet[prs[p][2]])]

\* torch.argmin written for torch.argmax
argmin(s) ==
    CHOOSE i \in 1..Len(s) :
        /\ \A j \in 1..Len(s) : s[j] >= s[i]
        /\ \A j \in 1..(i - 1) : s[j] > s[i]

\* The index of the last maximal value
argmaxLast(s) ==
    CHOOSE i \in 1..Len(s) :
        /\ \A j \in 1..Len(s) : s[j] <= s[i]
        /\ \A j \in (i + 1)..Len(s) : s[j] < s[i]

\* torch.argmax: the index of the first maximal value (1-based here)
argmax(s) ==
    CHOOSE i \in 1..Len(s) :
        /\ \A j \in 1..Len(s) : s[j] <= s[i]
        /\ \A j \in 1..(i - 1) : s[j] < s[i]

\* indices.difference(most_sim_pair[:1]): only the pair's first position removed
OddCandidatesFirstOnly(idx, pair) == idx \ {pair[1]}

\* indices.difference(most_sim_pair): the set .pop() draws from
OddCandidates(idx, pair) == idx \ {pair[1], pair[2]}

\* F.softmax(similarities, dim=0)
softmax(s) ==
    LET e == [p \in 1..Len(s) |-> FExp(s[p])]
        total == FSum(e)
    IN [p \in 1..Len(s) |-> FDiv(e[p], total)]

CountTrue(c) == Cardinality({x \in 1..Len(c) : c[x]})

\* The quotient cut after 4 decimal places instead of rounded
TruncateQuotient(c, m) == (c * Scale) \div m

\* round(x, 4) of the quotient c / m, in units of 10^-Places, ties to even
RoundQuotient(c, m) ==
    LET q == (c * Scale) \div m
        r == (c * Scale) % m
    IN IF 2 * r > m \/ (2 * r = m /\ q % 2 = 1) THEN q + 1 ELSE q

\* accuracy(choices), for a non-empty list
accuracy(c) == RoundQuotient(CountTrue(c), Len(c))

\* p * torch.log(p) without the torch.where guard
EntropyTermUnguarded(p) == PLogP(p)

\* torch.where(p > 0.0, p * torch.log(p), 0), one element
EntropyTerm(p) == IF p > 0 THEN PLogP(p) ELSE 0

\* entropy(p) of one row
entropy(p) == FNeg(FSum([x \in 1..Len(p) |-> EntropyTerm(p[x])]))

\* vmap(entropy)(probabilities)
ventropy(probabilities) ==
    [r \in 1..Len(probabilities) |-> entropy(probabilities[r])]

\* entropies.mean()
Mean(e) == IF FSum(e) = NaN THEN NaN ELSE FSum(e) \div Len(e)

\* list.insert(0, x) written for list.append(x)
ListInsertFront(l, x) == <<x>> \o l

\* list.append(x)
ListAppend(l, x) == Append(l, x)

\* ooo_idx == 0 written for ooo_idx == 2
IsCorrectFirst(o) == o = 0

\* The prediction ooo_idx == 2 appended to choices
IsCorrect(o) == o = 2

\* ----------------------------------------------------- main_eval.py: state
NoLocals ==
    /\ t = 0
    /\ indices = {0, 1, 2}
    /\ similarities = <<>>
    /\ most_sim_pair = <<>>
    /\ ooo_idx = None
    /\ choices = <<>>
    /\ probas = <<>>
    /\ acc = None
    /\ entropies = <<>>
    /\ mean_entropy = None
    /\ results = <<>>
    /\ saved_probas = None
    /\ results_csv = None

\* The RSA script is not running
RsaIdle ==
    /\ model_names = <<>>
    /\ model_sources = <<>>
    /\ model_config = {}
    /\ use_transforms = FALSE
    /\ transforms = None
    /\ things_features = None
    /\ rsa_pc = "idle"
    /\ modules = None
    /\ model_idx = 0
    /\ rsa_results = <<>>
    /\ model_features = <<>>
    /\ warned = <<>>
    /\ results_pkl = None
    /\ features_file = None

\* The triplet script is not running
ScorerIdle ==
    /\ features = [x \in Items |-> <<0, 0>>]
    /\ triplets = <<>>
    /\ rnd_seed = 42
    /\ pc = "idle"
    /\ error = None
    /\ run = 1
    /\ prev = None
    /\ NoLocals

\* evaluate(args) after load_triplets and extract_features, at the call of
\* get_predictions; __main__ has seeded the generators with --rnd_seed.
InitWith(lists) ==
    /\ features \in FeatureMatrices
    /\ triplets \in lists
    /\ rnd_seed = 42
    /\ pc = "predict"
    /\ error = None
    /\ run = 1
    /\ prev = None
    /\ NoLocals
    /\ RsaIdle

Init == InitWith(SeqsUpTo(TripDom, MaxT))

\* One pass of the for loop of get_predictions over a triplet whose three
\* indices address rows.
ScoreTriplet ==
    /\ pc = "predict"
    /\ t < Len(triplets)
    /\ LET tr == triplets[t + 1]
       IN /\ \A x \in 1..3 : InRange(features, tr[x])
          /\ LET triplet == [x \in 0..2 |-> RowAt(features, tr[x + 1])]
                 sims == compute_similarities(triplet, pairs)
                 pair == pairs[argmax(sims)]
             IN \E o \in OddCandidates(indices, pair) :
                    /\ similarities' = sims
                    /\ most_sim_pair' = pair
                    /\ ooo_idx' = o
                    /\ choices' = ListAppend(choices, IsCorrect(o))
                    /\ probas' = ListAppend(probas, softmax(sims))
    /\ t' = t + 1
    /\ UNCHANGED <<features, triplets, rnd_seed, pc, error, run, indices, acc,
                   entropies, mean_entropy, results, saved_probas, results_csv,
                   prev, rsaVars>>

\* features[i] raises IndexError in torch.stack: the exception escapes
\* get_predictions and evaluate.
RaiseIndexError ==
    /\ pc = "predict"
    /\ t < Len(triplets)
    /\ \E x \in 1..3 : ~InRange(features, triplets[t + 1][x])
    /\ pc' = "raised"
    /\ error' = "IndexError"
    /\ UNCHANGED <<features, triplets, rnd_seed, run, t, indices, similarities,
                   most_sim_pair, ooo_idx, choices, probas, acc, entropies,
                   mean_entropy, results, saved_probas, results_csv, prev,
                   rsaVars>>

\* The loop is exhausted: probas = torch.tensor(probas); return choices, probas
ReturnPredictions ==
    /\ pc = "predict"
    /\ t = Len(triplets)
    /\ pc' = "accuracy"
    /\ UNCHANGED <<features, triplets, rnd_seed, error, run, t, indices,
                   similarities, most_sim_pair, ooo_idx, choices, probas, acc,
                   entropies, mean_entropy, results, saved_probas, results_csv,
                   prev, rsaVars>>

\* acc = accuracy(choices)
Accuracy ==
    /\ pc = "accuracy"
    /\ Len(choices) > 0
    /\ acc' = accuracy(choices)
    /\ pc' = "ventropy"
    /\ UNCHANGED <<features, triplets, rnd_seed, error, run, t, indices,
                   similarities, most_sim_pair, ooo_idx, choices, probas,
                   entropies, mean_entropy, results, saved_probas, results_csv,
                   prev, rsaVars>>

\* sum(choices) / len(choices) with len(choices) = 0
AccuracyZeroDivision ==
    /\ pc = "accuracy"
    /\ Len(choices) = 0
    /\ pc' = "raised"
    /\ error' = "ZeroDivisionError"
    /\ UNCHANGED <<features, triplets, rnd_seed, run, t, indices, similarities,
                   most_sim_pair, ooo_idx, choices, probas, acc, entropies,
                   mean_entropy, results, saved_probas, results_csv, prev,
                   rsaVars>>

\* entropies = ventropy(probas); mean_entropy = entropies.mean().item()
Ventropy ==
    /\ pc = "ventropy"
    /\ entropies' = ventropy(probas)
    /\ mean_entropy' = Mean(entropies')
    /\ pc' = "summary"
    /\ UNCHANGED <<features, triplets, rnd_seed, error, run, t, indices,
                   similarities, most_sim_pair, ooo_idx, choices, probas, acc,
                   results, saved_probas, results_csv, prev, rsaVars>>

\* The summary dictionary of evaluate
SummaryRecord ==
    [model |-> "model", accuracy |-> acc, mean_entropy |-> mean_entropy,
     entropies |-> entropies]

\* results.append(summary); save_triplet_probas(probas, ...)
Summarise ==
    /\ pc = "summary"
    /\ results' = ListAppend(results, SummaryRecord)
    /\ saved_probas' = probas
    /\ pc' = "save"
    /\ UNCHANGED <<features, triplets, rnd_seed, error, run, t, indices,
                   similarities, most_sim_pair, ooo_idx, choices, probas, acc,
                   entropies, mean_entropy, results_csv, prev, rsaVars>>

\* results = pd.DataFrame(results); results.to_csv(...)
SaveResults ==
    /\ pc = "save"
    /\ results_csv' = results
    /\ pc' = "done"
    /\ UNCHANGED <<features, triplets, rnd_seed, error, run, t, indices,
                   similarities, most_sim_pair, ooo_idx, choices, probas, acc,
                   entropies, mean_entropy, results, saved_probas, prev,
                   rsaVars>>

Next ==
    \/ ScoreTriplet
    \/ RaiseIndexError
    \/ ReturnPredictions
    \/ Accuracy
    \/ AccuracyZeroDivision
    \/ Ventropy
    \/ Summarise
    \/ SaveResults

Spec == Init /\ [][Next]_vars

\* ------------------------------------------------ the scorer, run twice
\* What a scoring hands back: correctness, confidences, accuracy, entropies
Outputs ==
    [choices |-> choices, probas |-> probas, accuracy |-> acc,
     entropies |-> entropies, mean_entropy |-> mean_entropy]

\* The script is started again on the same features and triplets, with any
\* --rnd_seed: every local starts afresh.
Rerun ==
    /\ pc = "done"
    /\ run = 1
    /\ prev' = Outputs
    /\ run' = 2
    /\ rnd_seed' \in Seeds
    /\ pc' = "predict"
    /\ t' = 0
    /\ indices' = {0, 1, 2}
    /\ similarities' = <<>>
    /\ most_sim_pair' = <<>>
    /\ ooo_idx' = None
    /\ choices' = <<>>
    /\ probas' = <<>>
    /\ acc' = None
    /\ entropies' = <<>>
    /\ mean_entropy' = None
    /\ results' = <<>>
    /\ saved_probas' = None
    /\ results_csv' = None
    /\ UNCHANGED <<features, triplets, error, rsaVars>>

InitTwice == InitWith(SeqsUpTo(TwiceDom, MaxT))

NextTwice ==
    \/ Next
    \/ Rerun

SpecTwice == InitTwice /\ [][NextTwice]_vars

\* ------------------------------------------------ accuracy on its own
\* accuracy(choices) is called on a correctness vector
InitAccuracy ==
    /\ choices \in SeqsUpTo(BOOLEAN, MaxLen)
    /\ pc = "accuracy"
    /\ features = [x \in Items |-> <<0, 0>>]
    /\ triplets = <<>>
    /\ rnd_seed = 42
    /\ error = None
    /\ run = 1
    /\ prev = None
    /\ t = 0
    /\ indices = {0, 1, 2}
    /\ similarities = <<>>
    /\ most_sim_pair = <<>>
    /\ ooo_idx = None
    /\ probas = <<>>
    /\ acc = None
    /\ entropies = <<>>
    /\ mean_entropy = None
    /\ results = <<>>
    /\ saved_probas = None
    /\ results_csv = None
    /\ RsaIdle

NextAccuracy ==
    \/ Accuracy
    \/ AccuracyZeroDivision

SpecAccuracy == InitAccuracy /\ [][NextAccuracy]_vars

\* ------------------------------------------------ ventropy on its own
Perms3 == {<<1, 2, 3>>, <<1, 3, 2>>, <<2, 1, 3>>, <<2, 3, 1>>, <<3, 1, 2>>, <<3, 2, 1>>}
Permuted(r, pi) == [x \in 1..3 |-> r[pi[x]]]

\* Rows of three non-negative values that sum to 1
BaseRows ==
    {r \in {<<(a * Scale) \div GridK, (b * Scale) \div GridK,
              Scale - (a * Scale) \div GridK - (b * Scale) \div GridK>> :
               a \in 0..GridK, b \in 0..GridK} : r[3] >= 0}

GridRows == {Permuted(r, pi) : r \in BaseRows, pi \in Perms3}

\* ventropy(probabilities) is called on a matrix of such rows
InitEntropy ==
    /\ probas \in (SeqsUpTo(GridRows, MaxT) \ {<<>>})
    /\ pc = "ventropy"
    /\ features = [x \in Items |-> <<0, 0>>]
    /\ triplets = <<>>
    /\ rnd_seed = 42
    /\ error = None
    /\ run = 1
    /\ prev = None
    /\ t = 0
    /\ indices = {0, 1, 2}
    /\ similarities = <<>>
    /\ most_sim_pair = <<>>
    /\ ooo_idx = None
    /\ choices = <<>>
    /\ acc = None
    /\ entropies = <<>>
    /\ mean_entropy = None
    /\ results = <<>>
    /\ saved_probas = None
    /\ results_csv = None
    /\ RsaIdle

NextEntropy == Ventropy

SpecEntropy == InitEntropy /\ [][NextEntropy]_vars

\* ------------------------------------------ main_model_sim_eval.py: inputs
ModelNames == {"vgg16", "clip_RN50"}
Sources == {"torchvision", "custom"}
\* Keys <<source, model>> a loaded transform or embedding file may hold
LookupKeys == {<<"torchvision", "vgg16">>, <<"custom", "clip_RN50">>,
               <<"torchvision", "clip_RN50">>}

\* args.module, and the module name the config file gives for a model
Module == "penultimate"
ModuleNameOf(model) == <<model, Module, "module_name">>

\* ------------------------------------------ main_model_sim_eval.py: pure
Min(a, b) == IF a < b THEN a ELSE b

\* zip(model_cfg.names, model_cfg.sources): the shorter list decides
NumPairs == Min(Len(model_names), Len(model_sources))

\* get_module_names finds model_config[model][module]["module_name"] for
\* every model
AllModulesKnown == \A k \in 1..Len(model_names) : model_names[k] \in model_config

\* The key transforms[source][model_name][args.module] is looked up under
KeyOf(k) == <<model_sources[k], model_names[k]>>

\* The module name indexed by the number of rows so far, not by i
ExtractFeaturesByRowCount(k) ==
    [model |-> model_names[k], module_name |-> modules[Len(rsa_results) + 1],
     transformed |-> FALSE]

\* extractor.extract_features(batches, module_name=model_cfg.modules[i], ...)
ExtractFeatures(k) ==
    [model |-> model_names[k], module_name |-> modules[k], transformed |-> FALSE]

\* (features - mean) / std, features @ transform
ApplyTransform(f) == [f EXCEPT !.transformed = TRUE]

\* utils.evaluation.perform_rsa(dataset, data_source, features)
perform_rsa(f) ==
    [spearman_rho_cosine_kernel |-> <<"spearman", "cosine", f>>,
     spearman_rho_corr_kernel |-> <<"spearman", "correlation", f>>,
     pearson_corr_coef_cosine_kernel |-> <<"pearson", "cosine", f>>,
     pearson_corr_coef_corr_kernel |-> <<"pearson", "correlation", f>>]

\* The summary dictionary with the values of pearson_corr_cosine and
\* spearman_rho_correlation exchanged
RsaSummarySwapped(k, f) ==
    LET rsa_stats == perform_rsa(f)
    IN [model |-> model_names[k],
        spearman_rho_cosine |-> rsa_stats.spearman_rho_cosine_kernel,
        pearson_corr_cosine |-> rsa_stats.spearman_rho_corr_kernel,
        spearman_rho_correlation |-> rsa_stats.pearson_corr_coef_cosine_kernel,
        pearson_corr_correlation |-> rsa_stats.pearson_corr_coef_corr_kernel,
        source |-> model_sources[k],
        transform |-> use_transforms]

\* The summary dictionary of the RSA evaluate
RsaSummary(k, f) ==
    LET rsa_stats == perform_rsa(f)
    IN [model |-> model_names[k],
        spearman_rho_cosine |-> rsa_stats.spearman_rho_cosine_kernel,
        pearson_corr_cosine |-> rsa_stats.pearson_corr_coef_cosine_kernel,
        spearman_rho_correlation |-> rsa_stats.spearman_rho_corr_kernel,
        pearson_corr_correlation |-> rsa_stats.pearson_corr_coef_corr_kernel,
        source |-> model_sources[k],
        transform |-> use_transforms]

\* model_features[source][model_name][args.module] = features
StoreFeatures(mf, key, f) ==
    [x \in (DOMAIN mf) \cup {key} |-> IF x = key THEN f ELSE mf[x]]

\* ---------------------------------------- main_model_sim_eval.py: actions
\* evaluate(args) at the call of create_config_dicts; the transforms and
\* the THINGS embeddings are loaded only with --use_transforms.
InitRSA ==
    /\ model_names \in (SeqsUpTo(ModelNames, MaxModels) \ {<<>>})
    /\ model_sources \in (SeqsUpTo(Sources, MaxModels) \ {<<>>})
    /\ model_config \in SUBSET ModelNames
    /\ use_transforms \in BOOLEAN
    /\ IF use_transforms
       THEN transforms \in SUBSET LookupKeys /\ things_features \in SUBSET LookupKeys
       ELSE transforms = None /\ things_features = None
    /\ rsa_pc = "config"
    /\ modules = None
    /\ model_idx = 0
    /\ rsa_results = <<>>
    /\ model_features = <<>>
    /\ warned = <<>>
    /\ results_pkl = None
    /\ features_file = None
    /\ ScorerIdle

\* create_config_dicts: get_module_names returns one module name per model
GetModuleNames ==
    /\ rsa_pc = "config"
    /\ AllModulesKnown
    /\ modules' = [k \in 1..Len(model_names) |-> ModuleNameOf(model_names[k])]
    /\ rsa_pc' = "loop"
    /\ UNCHANGED <<model_names, model_sources, model_config, use_transforms,
                   transforms, things_features, model_idx, rsa_results,
                   model_features, warned, results_pkl, features_file,
                   scorerVars>>

\* except KeyError: module_names.append(None) written for the raise
MissingModuleNameIgnored ==
    /\ rsa_pc = "config"
    /\ ~AllModulesKnown
    /\ modules' = [k \in 1..Len(model_names) |->
                       IF model_names[k] \in model_config
                       THEN ModuleNameOf(model_names[k]) ELSE None]
    /\ rsa_pc' = "loop"
    /\ UNCHANGED <<model_names, model_sources, model_config, use_transforms,
                   transforms, things_features, model_idx, rsa_results,
                   model_features, warned, results_pkl, features_file,
                   scorerVars>>

\* get_module_names raises: a model has no module name in the config
MissingModuleName ==
    /\ rsa_pc = "config"
    /\ ~AllModulesKnown
    /\ rsa_pc' = "raised"
    /\ UNCHANGED <<model_names, model_sources, model_config, use_transforms,
                   transforms, things_features, modules, model_idx,
                   rsa_results, model_features, warned, results_pkl,
                   features_file, scorerVars>>

\* One pass of the loop that reaches perform_rsa: the summary is appended
\* and the features are stored.
EvaluateModel ==
    /\ rsa_pc = "loop"
    /\ model_idx < NumPairs
    /\ LET k == model_idx + 1
           extracted == ExtractFeatures(k)
       IN /\ use_transforms => (KeyOf(k) \in transforms /\ KeyOf(k) \in things_features)
          /\ LET f == IF use_transforms THEN ApplyTransform(extracted) ELSE extracted
             IN /\ rsa_results' = ListAppend(rsa_results, RsaSummary(k, f))
                /\ model_features' = StoreFeatures(model_features, KeyOf(k), f)
    /\ model_idx' = model_idx + 1
    /\ UNCHANGED <<model_names, model_sources, model_config, use_transforms,
                   transforms, things_features, rsa_pc, modules, warned,
                   results_pkl, features_file, scorerVars>>

\* break written for continue after the warning
SkipMissingTransformBreak ==
    /\ rsa_pc = "loop"
    /\ model_idx < NumPairs
    /\ use_transforms
    /\ KeyOf(model_idx + 1) \notin transforms
    /\ warned' = ListAppend(warned, <<model_names[model_idx + 1], "transform">>)
    /\ model_idx' = NumPairs
    /\ UNCHANGED <<model_names, model_sources, model_config, use_transforms,
                   transforms, things_features, rsa_pc, modules, rsa_results,
                   model_features, results_pkl, features_file, scorerVars>>

\* transforms[source][model_name][args.module] raises KeyError: warn, continue
SkipMissingTransform ==
    /\ rsa_pc = "loop"
    /\ model_idx < NumPairs
    /\ use_transforms
    /\ KeyOf(model_idx + 1) \notin transforms
    /\ warned' = ListAppend(warned, <<model_names[model_idx + 1], "transform">>)
    /\ model_idx' = model_idx + 1
    /\ UNCHANGED <<model_names, model_sources, model_config, use_transforms,
                   transforms, things_features, rsa_pc, modules, rsa_results,
                   model_features, results_pkl, features_file, scorerVars>>

\* things_features[source][model_name][args.module] raises KeyError: warn,
\* continue
SkipMissingEmbedding ==
    /\ rsa_pc = "loop"
    /\ model_idx < NumPairs
    /\ use_transforms
    /\ KeyOf(model_idx + 1) \in transforms
    /\ KeyOf(model_idx + 1) \notin things_features
    /\ warned' = ListAppend(warned, <<model_names[model_idx + 1], "embedding">>)
    /\ model_idx' = model_idx + 1
    /\ UNCHANGED <<model_names, model_sources, model_config, use_transforms,
                   transforms, things_features, rsa_pc, modules, rsa_results,
                   model_features, results_pkl, features_file, scorerVars>>

\* After the loop: results.to_pickle(...); save_features(...)
PersistResults ==
    /\ rsa_pc = "loop"
    /\ model_idx = NumPairs
    /\ results_pkl' = rsa_results
    /\ features_file' = model_features
    /\ rsa_pc' = "done"
    /\ UNCHANGED <<model_names, model_sources, model_config, use_transforms,
                   transforms, things_features, modules, model_idx,
                   rsa_results, model_features, warned, scorerVars>>

NextRSA ==
    \/ GetModuleNames
    \/ MissingModuleName
    \/ EvaluateModel
    \/ SkipMissingTransform
    \/ SkipMissingEmbedding
    \/ PersistResults

SpecRSA == InitRSA /\ [][NextRSA]_vars

\* ------------------------------------------------------------ the claims
\* The rows of the feature matrix the u-th triplet addresses, by position
TripletRows(u) == [x \in 0..2 |-> RowAt(features, triplets[u][x + 1])]
\* The similarity of positions a and b of the u-th triplet
SimOf(u, a, b) == cosine_similarity(TripletRows(u)[a], TripletRows(u)[b])

\* The three similarities of the u-th triplet, in the order of pairs
SimsOf(u) == <<SimOf(u, 0, 1), SimOf(u, 0, 2), SimOf(u, 1, 2)>>

InGetPredictions == pc \in {"predict", "raised", "accuracy"}

\* C1: in get_predictions, for the triplet scored last, the three
\* similarities of positions (0,1), (0,2), (1,2) are computed, the selected
\* pair has the maximal similarity, the predicted odd-one-out is the one
\* position outside that pair, and the recorded correctness is true iff that
\* position is 2, i.e. iff the selected pair is (0,1); every recorded
\* correctness value is true only if (0,1) is a maximal pair and false only
\* if another pair is more similar.
C1_OddOneOutRule ==
    InGetPredictions =>
        /\ t >= 1 =>
            /\ similarities = SimsOf(t)
            /\ \E p \in 1..3 :
                  /\ most_sim_pair = pairs[p]
                  /\ \A q \in 1..3 : similarities[q] <= similarities[p]
            /\ ooo_idx \in {0, 1, 2}
            /\ {ooo_idx} \cup {most_sim_pair[1], most_sim_pair[2]} = {0, 1, 2}
            /\ choices[t] = (ooo_idx = 2)
            /\ choices[t] = (most_sim_pair = <<0, 1>>)
        /\ \A u \in 1..Len(choices) :
              LET sims == SimsOf(u)
              IN /\ choices[u] => (sims[1] >= sims[2] /\ sims[1] >= sims[3])
                 /\ ~choices[u] => (sims[1] < sims[2] \/ sims[1] < sims[3])

\* A list of two triplets scored, the first correct, the second not, with
\* the pairs (0,2) or (1,2) selected last.
C1_Witness ==
    /\ pc = "accuracy"
    /\ Len(choices) = 2
    /\ choices[1]
    /\ ~choices[2]
    /\ ooo_idx \in {0, 1}

ExampleFeatures == [x \in Items |-> IF x = 2 THEN <<0, 1>> ELSE <<1, 0>>]

\* C2: whenever the vectors at the first two positions of a scored triplet
\* are identical and differ from the third, position 2 is predicted and
\* correct = True is recorded; F = [[1,0],[1,0],[0,1]] with triplet (0,1,2)
\* gives similarities (1, 0, 0), pair (0,1), odd position 2, correct = True.
C2_IdenticalPairPredictsThird ==
    /\ \A u \in 1..Len(choices) :
          (TripletRows(u)[0] = TripletRows(u)[1] /\ TripletRows(u)[2] # TripletRows(u)[0])
              => choices[u]
    /\ (t >= 1 /\ TripletRows(t)[0] = TripletRows(t)[1] /\ TripletRows(t)[2] # TripletRows(t)[0])
          => (ooo_idx = 2 /\ most_sim_pair = <<0, 1>>)
    /\ (t >= 1 /\ features = ExampleFeatures /\ triplets[t] = <<0, 1, 2>>)
          => /\ similarities = <<Scale, 0, 0>>
             /\ most_sim_pair = <<0, 1>>
             /\ ooo_idx = 2
             /\ choices[t]

\* The example of the specification has been scored.
C2_Witness ==
    /\ features = ExampleFeatures
    /\ triplets = <<<<0, 1, 2>>>>
    /\ pc = "done"
    /\ choices = <<TRUE>>

Failed == pc = "raised"
Finished == pc = "done"
\* The errors that report an invalid input: the InvalidInput of the
\* specification, and the IndexError Python raises for an index
InvalidInputErrors == {"InvalidInput", "IndexError"}
RejectedAsInvalid == Failed /\ error \in InvalidInputErrors

\* C4: scoring an empty triplet list fails with InvalidInput, not with a
\* division by zero, and produces no summary.
C4_EmptyListInvalidInput ==
    Len(triplets) = 0 =>
        /\ error # "ZeroDivisionError"
        /\ Failed => RejectedAsInvalid
        /\ ~Finished
        /\ results = <<>>

Distinct(tr) == tr[1] # tr[2] /\ tr[1] # tr[3] /\ tr[2] # tr[3]

\* C5: a triplet whose indices are not pairwise distinct makes the scoring
\* fail with InvalidInput, and no correctness value or confidence row is
\* produced for it.
C5_RepeatedIndexInvalidInput ==
    \A u \in 1..Len(triplets) :
        ~Distinct(triplets[u]) =>
            /\ Len(choices) < u
            /\ Len(probas) < u
            /\ Failed => RejectedAsInvalid
            /\ ~Finished

InBounds(tr) == \A x \in 1..3 : tr[x] \in 0..(NumRows(features) - 1)

\* C6: an index outside [0, N) is detected before any triplet is scored and
\* reported as an invalid input; no such index is mapped to a row and
\* scored.
C6_OutOfBoundsEager ==
    (\E u \in 1..Len(triplets) : ~InBounds(triplets[u])) =>
        /\ choices = <<>>
        /\ probas = <<>>
        /\ Failed => RejectedAsInvalid
        /\ ~Finished

\* C8: while get_predictions runs, both accumulators hold one entry per
\* triplet consumed; once it has returned they hold exactly one entry per
\* triplet of the list; every confidence row has 3 values; and the u-th
\* correctness value and the u-th confidence row returned are those of the
\* u-th triplet.
C8_OutputShapes ==
    pc # "idle" =>
        /\ Len(choices) = t
        /\ Len(probas) = t
        /\ \A u \in 1..t : Len(probas[u]) = 3
        /\ pc \notin {"predict", "raised"} =>
              Len(choices) = Len(triplets) /\ Len(probas) = Len(triplets)
        /\ pc = "accuracy" =>
              \A u \in 1..t :
                  LET sims == SimsOf(u)
                  IN /\ probas[u] = softmax(sims)
                     /\ choices[u] = (sims[1] >= sims[2] /\ sims[1] >= sims[3])

\* Two triplets with different correctness and different confidence rows
\* have been returned.
C8_Witness ==
    /\ pc = "accuracy"
    /\ Len(triplets) = 2
    /\ choices[1] # choices[2]
    /\ probas[1] # probas[2]

\* C9: a second scoring of the same feature matrix and triplet list, under
\* any seed, ends with the same correctness vector, confidences, accuracy
\* and entropies as the first.
C9_RepeatableOutputs ==
    (run = 2 /\ pc \in {"summary", "save", "done"}) => Outputs = prev

\* Two triplets have been scored a second time under another seed.
C9_Witness ==
    /\ run = 2
    /\ pc = "done"
    /\ rnd_seed # 42
    /\ Len(choices) = 2
    /\ choices[1] # choices[2]

\* C3: for a non-empty correctness vector of length M with c true values
\* accuracy returns the multiple of 10^-4 nearest to c / M; it returns 1.0
\* when all are correct, 0.0 when none is, and always a value in [0, 1].
C3_AccuracyRounded ==
    (pc = "ventropy" /\ Len(choices) > 0) =>
        LET c == CountTrue(choices)
            m == Len(choices)
        IN /\ acc \in 0..Scale
           /\ 2 * Abs(acc * m - c * Scale) <= m
           /\ c = m => acc = Scale
           /\ c = 0 => acc = 0

\* 2 of 3 correct: 0.6667, the quotient rounded up.
C3_Witness ==
    /\ pc = "ventropy"
    /\ Len(choices) = 3
    /\ CountTrue(choices) = 2
    /\ acc = 6667

IsPermutationOf(r1, r2) == \E pi \in Perms3 : r2 = Permuted(r1, pi)

\* log(3), and the rounding the fixed-point logarithm may add to a sum of
\* three terms
Log3 == LogMantissa((3 * Scale) \div 2) + LogMantissa(2 * Scale)
LogSlack == 2 * Places

\* The entries of a row that are not 0
NonZero(row) == {x \in 1..Len(row) : row[x] # 0}
RECURSIVE SumPLogP(_, _)
SumPLogP(row, xs) ==
    IF xs = {} THEN 0
    ELSE LET x == CHOOSE y \in xs : TRUE
         IN PLogP(row[x]) + SumPLogP(row, xs \ {x})

\* C10: for every row of non-negative values summing to 1 the entropy is
\* -sum(p log p) over the entries that are not 0 (an entry 0 adds exactly 0,
\* never NaN), rows that are permutations of each other get the same
\* entropy, and the entropy lies in [0, log(3)].
C10_EntropyOfRow ==
    pc = "summary" =>
        /\ Len(entropies) = Len(probas)
        /\ \A r \in 1..Len(probas) :
              /\ entropies[r] # NaN
              /\ entropies[r] = -SumPLogP(probas[r], NonZero(probas[r]))
              /\ entropies[r] >= 0
              /\ entropies[r] <= Log3 + LogSlack
        /\ \A r1, r2 \in 1..Len(probas) :
              IsPermutationOf(probas[r1], probas[r2]) => entropies[r1] = entropies[r2]

\* Two rows, one a permutation of the other and holding a 0, with entropy
\* strictly between 0 and log(3).
C10_Witness ==
    /\ pc = "summary"
    /\ Len(probas) = 2
    /\ probas[1] # probas[2]
    /\ IsPermutationOf(probas[1], probas[2])
    /\ \E x \in 1..3 : probas[1][x] = 0
    /\ entropies[1] > 0
    /\ entropies[1] < Log3

\* A lookup of the k-th (model, source) pair finds no key
MissingData(k) ==
    use_transforms /\ (KeyOf(k) \notin transforms \/ KeyOf(k) \notin things_features)

HasRow(k) ==
    \E r \in 1..Len(rsa_results) :
        rsa_results[r].model = model_names[k] /\ rsa_results[r].source = model_sources[k]

\* C7: with use_transforms set, a model whose transform or embedding lookup
\* finds no key is warned about and gets no result row and no stored
\* features; no exception escapes the loop; every model whose lookups
\* succeed has its row once the loop has passed it, also after a skipped
\* one; and the run ends with every model passed and the results written.
C7_MissingDataSkipped ==
    /\ rsa_pc = "raised" => (modules = None /\ model_idx = 0)
    /\ rsa_pc \in {"loop", "done"} =>
        \A k \in 1..model_idx :
            IF MissingData(k)
            THEN /\ ~HasRow(k)
                 /\ KeyOf(k) \notin DOMAIN model_features
                 /\ \E w \in 1..Len(warned) : warned[w][1] = model_names[k]
            ELSE HasRow(k)
    /\ rsa_pc = "done" =>
        /\ model_idx = NumPairs
        /\ results_pkl = rsa_results
        /\ features_file = model_features

\* A run over two models has ended: the first was skipped for a missing
\* transform, the second was evaluated and the results were written.
C7_Witness ==
    /\ rsa_pc = "done"
    /\ NumPairs = 2
    /\ MissingData(1)
    /\ KeyOf(1) \notin transforms
    /\ ~MissingData(2)
    /\ Len(warned) = 1
    /\ Len(results_pkl) = 1
    /\ results_pkl[1].model = model_names[2]

\* The fields every summary record of a triplet evaluation run has to carry
RequiredFields == {"accuracy", "mean_entropy", "entropies", "probas"}

\* C11: every summary record in the results table of a triplet evaluation
\* run has the fields accuracy (a multiple of 10^-4), mean_entropy, the
\* per-triplet entropies and the per-triplet confidence matrix, holding the
\* values the run computed; stated here for runs over lists of valid
\* triplets.
C11_SummaryRecordFields ==
    (\A u \in 1..Len(triplets) : Distinct(triplets[u]) /\ InBounds(triplets[u])) =>
        \A r \in 1..Len(results) :
            /\ RequiredFields \subseteq DOMAIN results[r]
            /\ results[r].accuracy \in 0..Scale
            /\ results[r].mean_entropy = mean_entropy
            /\ results[r].entropies = entropies
            /\ results[r].probas = probas

\* The four statistics of an RSA summary record
RsaFields == {"spearman_rho_cosine", "spearman_rho_correlation",
              "pearson_corr_cosine", "pearson_corr_correlation"}

\* The value v is the statistic of that correlation type and kernel, computed
\* on features extracted from that model
IsStatistic(v, correlation, kernel, model) ==
    /\ v[1] = correlation
    /\ v[2] = kernel
    /\ v[3].model = model
    /\ v[3].transformed = use_transforms

\* C12: every RSA summary record has the fields spearman_rho_cosine,
\* spearman_rho_correlation, pearson_corr_cosine and
\* pearson_corr_correlation, and each holds the statistic perform_rsa
\* returned for the record's own model under the correlation type and kernel
\* of the field's name.
C12_RsaFieldsMatch ==
    \A r \in 1..Len(rsa_results) :
        LET row == rsa_results[r]
        IN /\ RsaFields \subseteq DOMAIN row
           /\ IsStatistic(row.spearman_rho_cosine, "spearman", "cosine", row.model)
           /\ IsStatistic(row.spearman_rho_correlation, "spearman", "correlation", row.model)
           /\ IsStatistic(row.pearson_corr_cosine, "pearson", "cosine", row.model)
           /\ IsStatistic(row.pearson_corr_correlation, "pearson", "correlation", row.model)

\* A run has ended with the records of two different models.
C12_Witness ==
    /\ rsa_pc = "done"
    /\ Len(results_pkl) = 2
    /\ results_pkl[1].model # results_pkl[2].model
    /\ results_pkl[1].pearson_corr_cosine # results_pkl[2].pearson_corr_cosine

\* The config file has no module name for one of the requested models
MissingSome == \E k \in 1..Len(model_names) : model_names[k] \notin model_config

\* Nothing has been extracted, evaluated or written
NothingDone ==
    /\ modules = None
    /\ model_idx = 0
    /\ rsa_results = <<>>
    /\ model_features = <<>>
    /\ warned = <<>>
    /\ results_pkl = None
    /\ features_file = None

\* C13: if the config has no module name for one of the requested models the
\* run never gets past get_module_names: it ends raised, with no model
\* extracted or evaluated and nothing written; the run ends raised only in
\* that case; otherwise, once get_module_names has returned, modules holds
\* one module name per requested model, the k-th being that of the k-th
\* model.
C13_MissingModuleAborts ==
    /\ MissingSome => (rsa_pc \in {"config", "raised"} /\ NothingDone)
    /\ rsa_pc = "raised" => MissingSome
    /\ (~MissingSome /\ rsa_pc # "config") =>
          /\ rsa_pc \in {"loop", "done"}
          /\ Len(modules) = Len(model_names)
          /\ \A k \in 1..Len(model_names) :
                modules[k] = <<model_names[k], Module, "module_name">>

\* A run over two models has aborted: the config knows the first model but
\* not the second.
C13_Witness ==
    /\ rsa_pc = "raised"
    /\ Len(model_names) = 2
    /\ model_names[1] \in model_config
    /\ model_names[2] \notin model_config
    /\ NothingDone

\* The positions among the first n (model, source) pairs that were not
\* skipped, in the order of the lists
RECURSIVE KeptPairs(_)
KeptPairs(n) ==
    IF n = 0 THEN <<>>
    ELSE IF MissingData(n) THEN KeptPairs(n - 1)
         ELSE Append(KeptPairs(n - 1), n)

\* C14: nothing is persisted before the loop over the models has ended; when
\* the run has completed, the results table written has one row per
\* (model, source) pair that was not skipped, in the order of the lists, each
\* row computed on features extracted with the module name at the pair's own
\* position; the feature dictionary written has an entry for exactly those
\* pairs, extracted with that same module name; and what was written is the
\* table and the dictionary as the loop left them.
C14_RowsForKeptModels ==
    /\ rsa_pc \in {"config", "loop", "raised"} =>
          (results_pkl = None /\ features_file = None)
    /\ rsa_pc = "done" =>
          LET kept == KeptPairs(NumPairs)
          IN /\ model_idx = NumPairs
             /\ results_pkl = rsa_results
             /\ features_file = model_features
             /\ Len(results_pkl) = Len(kept)
             /\ \A r \in 1..Len(kept) :
                   LET k == kept[r]
                   IN /\ results_pkl[r].model = model_names[k]
                      /\ results_pkl[r].source = model_sources[k]
                      /\ results_pkl[r].spearman_rho_cosine[3].module_name = modules[k]
                      /\ features_file[KeyOf(k)].module_name = modules[k]
             /\ DOMAIN features_file = {KeyOf(kept[r]) : r \in 1..Len(kept)}

\* A run over two different models has completed: the first was skipped, the
\* second has the only row.
C14_Witness ==
    /\ rsa_pc = "done"
    /\ NumPairs = 2
    /\ model_names[1] # model_names[2]
    /\ KeptPairs(NumPairs) = <<2>>
    /\ Len(results_pkl) = 1
    /\ DOMAIN features_file = {KeyOf(2)}

\* The positions in a similarity tensor that hold its maximum
MaximalIn(sims) == {p \in 1..3 : \A q \in 1..3 : sims[q] <= sims[p]}

\* The pairs of the u-th triplet whose similarity is the maximum
MaximalPairs(u) == MaximalIn(SimsOf(u))

\* The least number of a non-empty set of numbers
Least(S) == CHOOSE x \in S : \A y \in S : x <= y

\* C15: in get_predictions, when two or three similarities of the triplet
\* scored last tie for the maximum, the selected pair is the first maximal
\* one in the order (0,1), (0,2), (1,2), and the triplet is recorded correct
\* when (0,1) is among the maximal pairs and incorrect when it is not.
C15_FirstMaximalPairOnTies ==
    (pc \in {"predict", "accuracy"} /\ t >= 1) =>
        LET maximal == MaximalIn(SimsOf(t))
        IN Cardinality(maximal) >= 2 =>
              /\ most_sim_pair = pairs[Least(maximal)]
              /\ choices[t] <=> 1 \in maximal

\* Two tied triplets have been scored: sim(0,1) ties for the maximum in the
\* first, which is correct; (0,2) and (1,2) tie above (0,1) in the second,
\* which is incorrect with the pair (0,2) selected.
C15_Witness ==
    /\ pc = "accuracy"
    /\ t = 2
    /\ MaximalPairs(1) \in {{1, 2}, {1, 3}}
    /\ choices[1]
    /\ MaximalPairs(2) = {2, 3}
    /\ ~choices[2]
    /\ most_sim_pair = <<0, 2>>

====
